---- MODULE Spec2Model ----
(***************************************************************************)
(* ToyboxData (toybox_data.py): the index builder (_get_df), the filter    *)
(* (_filter), the sample assembler (_getitem), the preloader (_preload)    *)
(* and the public operations __init__, __len__ and __getitem__.            *)
(*                                                                         *)
(* Conventions of the model                                                *)
(*   - Python's None is the empty tuple <<>>, a present value x is <<x>>.  *)
(*   - A pandas DataFrame is a sequence of rows; every row carries its     *)
(*     pandas index label in the field "index" (labels are 0-based, as in  *)
(*     pandas), so boolean-mask selection keeps labels and reset_index     *)
(*     renumbers them.                                                     *)
(*   - A path is the tuple of its "/"-separated segments; the decimal      *)
(*     numbers inside directory and file names are digit sequences, as     *)
(*     they are characters in the file name.                               *)
(*   - An image is [src, w]: the file it was read from and its width in    *)
(*     columns.                                                            *)
(*   - One run of the state machine is the life of one dataset object: it  *)
(*     is constructed once and then asked for its length and its samples.  *)
(***************************************************************************)
EXTENDS Integers, Sequences, FiniteSets, TLC

VARIABLES
    ReadCSV,    \* conf.ReadCSV, the flag handed to _get_df
    cache,      \* the cache file squares_same_nview.csv: None or <<table>>
    pc,         \* "new": nothing constructed, "ready": an object, "failed"
    self,       \* the constructor arguments and the object's fields
    err,        \* the exception the last construction raised, or "none"
    ret         \* the outcome of the last call

vars == <<ReadCSV, cache, pc, self, err, ret>>

----------------------------------------------------------------------------
(* Bounds of the model *)

MaxIndex == 1

(* Program constants *)

NumViews == 18
RowsPerView == 4
LastView == 17

None == <<>>
Some(x) == <<x>>
IsNone(o) == o = <<>>
Val(o) == o[1]

Min(a, b) == IF a < b THEN a ELSE b

\* a / b rounded to the nearest integer, ties to the even neighbour
\* (Python's round), for a >= 0 and b > 0
Round(a, b) ==
    LET q == a \div b
        r == a % b
    IN  IF 2 * r < b THEN q
        ELSE IF 2 * r > b THEN q + 1
        ELSE IF q % 2 = 0 THEN q ELSE q + 1

\* A sequence given by a rule, as an explicit tuple
Tuple(s) == s \o <<>>

RECURSIVE SumSeq(_)
SumSeq(s) == IF s = <<>> THEN 0 ELSE Head(s) + SumSeq(Tail(s))

----------------------------------------------------------------------------
(* Names and numbers as they are spelled in paths *)

\* Decimal spelling of a natural number below 1000, without padding.
Str(n) ==
    IF n < 10 THEN <<n>>
    ELSE IF n < 100 THEN <<n \div 10, n % 10>>
    ELSE <<n \div 100, (n \div 10) % 10, n % 10>>

\* Python's int() on a digit string.
RECURSIVE int(_)
int(ds) == IF ds = <<>> THEN 0 ELSE 10 * int(SubSeq(ds, 1, Len(ds) - 1)) + ds[Len(ds)]

\* The names used in the modelled directories, in character order.  No name
\* is a prefix of another, so the order of two names decides the order of
\* the strings they start.
NameOrder == <<"ball", "car", "rxminus", "rzplus", "train">>

NameRank(s) == CHOOSE k \in 1..Len(NameOrder) : NameOrder[k] = s

\* Character order of two digit strings each followed by a separator
\* ("/" or "."), which sorts before every digit: a proper prefix sorts first.
RECURSIVE DigitsLess(_, _)
DigitsLess(a, b) ==
    IF b = <<>> THEN FALSE
    ELSE IF a = <<>> THEN TRUE
    ELSE IF Head(a) # Head(b) THEN Head(a) < Head(b)
    ELSE DigitsLess(Tail(a), Tail(b))

\* <root>/<ca>/<dataset>/<no>/<tr>_<fr>/<ratio>.png
MkPath(root, ca, dataset, no, tr, fr, ratio) ==
    <<root, ca, dataset, Str(no), <<tr, Str(fr)>>, Str(ratio)>>

\* String order of two paths under the same root.
PathLess(p, q) ==
    IF p[2] # q[2] THEN NameRank(p[2]) < NameRank(q[2])
    ELSE IF p[3] # q[3] THEN NameRank(p[3]) < NameRank(q[3])
    ELSE IF p[4] # q[4] THEN DigitsLess(p[4], q[4])
    ELSE IF p[5][1] # q[5][1] THEN NameRank(p[5][1]) < NameRank(q[5][1])
    ELSE IF p[5][2] # q[5][2] THEN DigitsLess(p[5][2], q[5][2])
    ELSE DigitsLess(p[6], q[6])

----------------------------------------------------------------------------
(* The directories the constructor is pointed at *)

Frames == 0..(NumViews - 1)

\* 1 category x 1 instance x 1 rotation axis x 18 frames x 1 ratio
Files18 ==
    { MkPath("r18", "ball", "train", 1, "rzplus", fr, 100) : fr \in Frames }

\* 1 category x 1 instance x 1 rotation axis x 18 frames x 4 ratios
Files72 ==
    { MkPath("r72", "ball", "train", 1, "rzplus", fr, ra) :
        fr \in Frames, ra \in {25, 50, 75, 100} }

\* 1 category x 1 instance x 2 rotation axes x 18 frames x 2 ratios
FilesMix ==
    { MkPath("rmix", "car", "train", 1, tr, fr, ra) :
        tr \in {"rxminus", "rzplus"}, fr \in Frames, ra \in {50, 100} }

Roots == {"r18", "r72", "rmix"}

RECURSIVE Enumerate(_)
Enumerate(S) ==
    IF S = {} THEN <<>>
    ELSE LET x == CHOOSE y \in S : TRUE IN <<x>> \o Enumerate(S \ {x})

sorted(S) == SortSeq(Enumerate(S), PathLess)

Sorted18 == sorted(Files18)
Sorted72 == sorted(Files72)
SortedMix == sorted(FilesMix)

\* sorted(glob(f'{root}/*/*/*/*/*.png'))
glob(root) ==
    CASE root = "r18" -> Sorted18
      [] root = "r72" -> Sorted72
      [] root = "rmix" -> SortedMix

----------------------------------------------------------------------------
(* conf: the process-wide configuration *)

\* conf.ALL_CA, the ordered list of category names
ALL_CA == <<"airplane", "ball", "car">>

\* list.index: the 0-based position of x, or the ValueError of a missing x
ListIndex(lst, x) ==
    IF \E k \in 1..Len(lst) : lst[k] = x
    THEN [status |-> "ok", val |-> (CHOOSE k \in 1..Len(lst) : lst[k] = x) - 1]
    ELSE [status |-> "ValueError", val |-> 0]

----------------------------------------------------------------------------
(* Index builder *)

\* _get_img_info: the positional segments of a path, counted from its end
_get_img_info(path) ==
    LET n == Len(path)
    IN  [ path    |-> path,
          dataset |-> path[n - 3],
          ca      |-> path[n - 4],
          no      |-> int(path[n - 2]),
          tr      |-> path[n - 1][1],
          fr      |-> int(path[n - 1][2]),
          ratio   |-> int(path[n]) ]

\* [i for i in range(18) for _ in range(4)] * (nfiles // 18 // 4)
ViewIndexColumn(nfiles) ==
  Tuple(
    [ k \in 1..(NumViews * RowsPerView * ((nfiles \div NumViews) \div RowsPerView)) |->
        ((k - 1) % (NumViews * RowsPerView)) \div RowsPerView ])

\* df[df.dataset == dataset]: the rows keep their index labels
SplitRows(table, dataset) == SelectSeq(table, LAMBDA r : r.dataset = dataset)

\* The table built from the file list: one row per file in discovery order,
\* labelled 0.., with the positional view_index column.
BuildTable(all_files) ==
    LET col == ViewIndexColumn(Len(all_files))
    IN  Tuple([ k \in 1..Len(all_files) |->
            LET i == _get_img_info(all_files[k])
            IN  [ index |-> k - 1, path |-> i.path, dataset |-> i.dataset,
                  ca |-> i.ca, no |-> i.no, tr |-> i.tr, fr |-> i.fr,
                  ratio |-> i.ratio, view_index |-> col[k] ] ])

\* The tables of the modelled directories, tabulated once
Table72 == BuildTable(Sorted72)
TableMix == BuildTable(SortedMix)

ScanTable(all_files) ==
    CASE all_files = Sorted72 -> Table72
      [] all_files = SortedMix -> TableMix
      [] OTHER -> BuildTable(all_files)

\* The outcome of _get_df: [status, df, cache (the cache file afterwards),
\* parsed (the number of paths handed to _get_img_info)].

\* _get_df, read_csv branch: pd.read_csv raises FileNotFoundError when the
\* file is absent
LoadCache(dataset, cachefile) ==
    IF IsNone(cachefile)
    THEN [status |-> "FileNotFoundError", df |-> <<>>, cache |-> cachefile, parsed |-> 0]
    ELSE [status |-> "ok", df |-> SplitRows(Val(cachefile), dataset),
          cache |-> cachefile, parsed |-> 0]

\* _get_df, else branch: assigning a column whose length differs from the
\* number of rows raises ValueError, before to_csv is reached
DeriveIndex(dataset, all_files, cachefile) ==
    IF NumViews * RowsPerView * ((Len(all_files) \div NumViews) \div RowsPerView)
         # Len(all_files)
    THEN [status |-> "ValueError: length mismatch", df |-> <<>>,
          cache |-> cachefile, parsed |-> Len(all_files)]
    ELSE LET df == ScanTable(all_files)
         IN  [status |-> "ok", df |-> SplitRows(df, dataset),
              cache |-> Some(df), parsed |-> Len(all_files)]

\* Faulty variant of _get_df: the presence of the cache file decides, not the flag
_get_dfByPresence(dataset, all_files, read_csv, cachefile) ==
    IF ~IsNone(cachefile)
    THEN LoadCache(dataset, cachefile)
    ELSE DeriveIndex(dataset, all_files, cachefile)

\* _get_df
_get_df(dataset, all_files, read_csv, cachefile) ==
    IF read_csv
    THEN LoadCache(dataset, cachefile)
    ELSE DeriveIndex(dataset, all_files, cachefile)

----------------------------------------------------------------------------
(* Filter *)

\* Faulty variant of linspace: the reals are rounded to the nearest integer
linspaceRounded(start, stop, num) ==
    Tuple([ i \in 1..num |->
        IF num = 1 THEN start
        ELSE start + Round((i - 1) * (stop - start), num - 1) ])

\* np.linspace(start, stop, num, endpoint=True, dtype=np.int): num evenly
\* spaced reals from start to stop, each cast to an integer (truncation)
linspace(start, stop, num) ==
    Tuple([ i \in 1..num |->
        IF num = 1 THEN start
        ELSE start + ((i - 1) * (stop - start)) \div (num - 1) ])

\* self.view_index
ViewIndex(nview) == IF nview > 0 THEN Some(linspace(0, LastView, nview)) ELSE None

InSeq(x, s) == \E k \in 1..Len(s) : s[k] = x

\* df.reset_index().drop('index', axis=1)
reset_index(df) == Tuple([ k \in 1..Len(df) |-> [df[k] EXCEPT !.index = k - 1] ])

\* Faulty variant of _filter: the ratio filter is left out
_filterWithoutRatio(all_df, tr, view_index, ratio) ==
    LET d1 == IF IsNone(tr) THEN all_df
              ELSE SelectSeq(all_df, LAMBDA r : r.tr \in Val(tr))
        d2 == IF IsNone(view_index) THEN d1
              ELSE SelectSeq(d1, LAMBDA r : InSeq(r.view_index, Val(view_index)))
    IN  reset_index(d2)

\* _filter
_filter(all_df, tr, view_index, ratio) ==
    LET d1 == IF IsNone(tr) THEN all_df
              ELSE SelectSeq(all_df, LAMBDA r : r.tr \in Val(tr))
        d2 == IF IsNone(view_index) THEN d1
              ELSE SelectSeq(d1, LAMBDA r : InSeq(r.view_index, Val(view_index)))
        d3 == IF IsNone(ratio) THEN d2
              ELSE SelectSeq(d2, LAMBDA r : r.ratio \in Val(ratio))
    IN  reset_index(d3)

----------------------------------------------------------------------------
(* Sample assembler *)

Modes == {"sv", "mv", "sp"}

\* Side length of the square images stored under a root
Side(root) ==
    CASE root = "r18" -> 1
      [] root = "r72" -> 2
      [] root = "rmix" -> 3

\* imageio.imread: the image stored at path
imread(path) == [src |-> path, w |-> Side(path[1])]

\* img[:, l: l + w]: a slice stops at the image's last column
Crop(img, l, w) == [src |-> img.src, w |-> Min(l + w, img.w) - Min(l, img.w)]

\* The widths list of the sphere branch:
\*   while size > step: widths.append(step); size -= step
\*   widths.append(size)
RECURSIVE Widths(_, _)
Widths(size, step) ==
    IF size > step THEN <<step>> \o Widths(size - step, step) ELSE <<size>>

\* math.ceil(size / nview), nview > 0
Ceil(size, nview) == (size + nview - 1) \div nview

\* zip(imgs, widths) stops at the shorter of the two
SphereStrips(imgs, widths, l) ==
    Tuple([ k \in 1..Min(Len(imgs), Len(widths)) |-> Crop(imgs[k], l, widths[k]) ])

\* df.loc[index]: the row labelled index, or KeyError
HasLabel(df, index) == \E k \in 1..Len(df) : df[k].index = index
Loc(df, index) == df[CHOOSE k \in 1..Len(df) : df[k].index = index]

\* the rows of df sharing info's (ca, no, tr, ratio), in df's order
Group(df, info) ==
    SelectSeq(df, LAMBDA r : r.ca = info.ca /\ r.no = info.no
                             /\ r.tr = info.tr /\ r.ratio = info.ratio)

Paths(rows) == Tuple([ k \in 1..Len(rows) |-> rows[k].path ])

\* [imageio.imread(p) for p in mv_info.path]
ReadAll(rows) == Tuple([ k \in 1..Len(rows) |-> imread(rows[k].path) ])

Raise(e) == [status |-> e, val |-> <<>>]
Return(v) == [status |-> "ok", val |-> v]

\* _getitem: the sample is [kind, img (the images or strips it is made of),
\* label, path (the contributing paths, joined by ">" in the code)]
_getitem(df, nview, mode, index) ==
    LET idx == IF mode = "mv" THEN index * nview ELSE index
    IN  IF ~HasLabel(df, idx) THEN Raise("KeyError")
        ELSE
        LET info == Loc(df, idx)
            label == ListIndex(ALL_CA, info.ca)
        IN  IF label.status # "ok" THEN Raise("ValueError")
            ELSE IF mode = "sv"
            THEN Return([kind |-> "image", img |-> <<imread(info.path)>>,
                         label |-> label.val, path |-> <<info.path>>])
            ELSE IF mode = "mv"
            THEN LET mv_info == Group(df, info)
                 IN  Return([kind |-> "stack",
                             img |-> ReadAll(mv_info),
                             label |-> label.val, path |-> Paths(mv_info)])
            ELSE IF mode = "sp"
            THEN IF nview = 0 THEN Raise("ZeroDivisionError")
                 ELSE
                 LET mv_info == Group(df, info)
                     imgs == ReadAll(mv_info)
                     l == imgs[1].w \div 2
                     step == Ceil(imgs[1].w, nview)
                     widths == Widths(imgs[1].w, step)
                 IN  Return([kind |-> "composite",
                             img |-> SphereStrips(imgs, widths, l),
                             label |-> label.val, path |-> Paths(mv_info)])
            ELSE Raise("ValueError: invalid mode")

\* Faulty variant of __len__: the row count in every mode
__len__RowCount(df, nview, mode) == Return(Len(df))

\* __len__
__len__(df, nview, mode) ==
    IF mode = "mv"
    THEN IF nview = 0 THEN Raise("ZeroDivisionError") ELSE Return(Len(df) \div nview)
    ELSE Return(Len(df))

\* Faulty variant of _preload: nothing is assembled at construction
_preloadNothing(df, nview, mode) == Return(<<>>)

\* _preload: the samples of the logical indices 0 .. len(self) - 1 in order,
\* or the first exception on the way
_preload(df, nview, mode) ==
    LET n == __len__(df, nview, mode)
    IN  IF n.status # "ok" THEN Raise(n.status)
        ELSE LET got == Tuple([ k \in 1..n.val |-> _getitem(df, nview, mode, k - 1) ])
             IN  IF \E k \in 1..n.val : got[k].status # "ok"
                 THEN Raise(got[CHOOSE k \in 1..n.val :
                                  /\ got[k].status # "ok"
                                  /\ \A j \in 1..(k - 1) : got[j].status = "ok"].status)
                 ELSE Return(Tuple([ k \in 1..n.val |-> got[k].val ]))

\* __getitem__
__getitem__(obj, index) ==
    IF obj.preload
    THEN IF index < Len(Val(obj.loaded_data))
         THEN Return(Val(obj.loaded_data)[index + 1])
         ELSE Raise("IndexError")
    ELSE _getitem(obj.df, obj.nview, obj.mode, index)

----------------------------------------------------------------------------
(* The public operations *)

TrChoices == {None, Some({"rzplus"})}
RatioChoices == {None, Some({100})}
NviewChoices == 0..NumViews
ModeChoices == Modes \cup {"xx"}
Datasets == {"test", "train"}

Args ==
    [ root : Roots, tr : TrChoices, nview : NviewChoices, ratio : RatioChoices,
      mode : ModeChoices, dataset : Datasets, preload : BOOLEAN ]

\* The fields of an object whose construction did not get as far as setting them
Blank(a) ==
    [ root |-> a.root, tr |-> a.tr, nview |-> a.nview, view_index |-> None,
      ratio |-> a.ratio, mode |-> a.mode, dataset |-> a.dataset,
      all_df |-> <<>>, df |-> <<>>, preload |-> a.preload, loaded_data |-> None ]

\* __init__: [err, obj, cache, parsed]
__init__(a, read_csv, cachefile) ==
    LET view_index == ViewIndex(a.nview)
        all_files == glob(a.root)
        got == _get_df(a.dataset, all_files, read_csv, cachefile)
    IN  IF got.status # "ok"
        THEN [err |-> got.status, obj |-> Blank(a), cache |-> got.cache,
              parsed |-> got.parsed]
        ELSE
        LET df == _filter(got.df, a.tr, view_index, a.ratio)
            loaded == IF a.preload THEN _preload(df, a.nview, a.mode)
                      ELSE Return(<<>>)
        IN  IF loaded.status # "ok"
            THEN [err |-> loaded.status, obj |-> Blank(a), cache |-> got.cache,
                  parsed |-> got.parsed]
            ELSE [err |-> "none",
                  obj |-> [ root |-> a.root, tr |-> a.tr, nview |-> a.nview,
                            view_index |-> view_index, ratio |-> a.ratio,
                            mode |-> a.mode, dataset |-> a.dataset,
                            all_df |-> got.df, df |-> df, preload |-> a.preload,
                            loaded_data |-> IF a.preload THEN Some(loaded.val) ELSE None ],
                  cache |-> got.cache, parsed |-> got.parsed]

NoArgs ==
    [ root |-> "", tr |-> None, nview |-> 0, ratio |-> None, mode |-> "",
      dataset |-> "", preload |-> FALSE ]

\* Before the run the cache file is absent or was left by an earlier run,
\* here one over the directory r72.

Init ==
    /\ ReadCSV \in BOOLEAN
    /\ cache \in {None, Some(Table72)}
    /\ pc = "new"
    /\ self = Blank(NoArgs)
    /\ err = "none"
    /\ ret = [op |-> "none", index |-> 0, status |-> "ok", val |-> <<>>]

\* ToyboxData(root, tr, nview, ratio, mode, dataset, preload)
Construct(a) ==
    LET r == __init__(a, ReadCSV, cache)
    IN  /\ pc = "new"
        /\ pc' = IF r.err = "none" THEN "ready" ELSE "failed"
        /\ self' = r.obj
        /\ err' = r.err
        /\ cache' = r.cache
        /\ ret' = [op |-> "__init__", index |-> 0, status |-> r.err, val |-> r.parsed]
        /\ UNCHANGED ReadCSV

\* len(dataset)
CallLen ==
    /\ pc = "ready"
    /\ LET r == __len__(self.df, self.nview, self.mode)
       IN  ret' = [op |-> "__len__", index |-> 0, status |-> r.status, val |-> r.val]
    /\ UNCHANGED <<ReadCSV, cache, pc, self, err>>

\* dataset[index]
CallGetItem(index) ==
    /\ pc = "ready"
    /\ LET r == __getitem__(self, index)
       IN  ret' = [op |-> "__getitem__", index |-> index, status |-> r.status,
                   val |-> r.val]
    /\ UNCHANGED <<ReadCSV, cache, pc, self, err>>

Next ==
    \/ \E a \in Args : Construct(a)
    \/ CallLen
    \/ \E index \in 0..MaxIndex : CallGetItem(index)

Spec == Init /\ [][Next]_vars

----------------------------------------------------------------------------
(* Vocabulary of the properties *)

ArgsOf(obj) ==
    [ root |-> obj.root, tr |-> obj.tr, nview |-> obj.nview, ratio |-> obj.ratio,
      mode |-> obj.mode, dataset |-> obj.dataset, preload |-> obj.preload ]

IndexErrors == {"FileNotFoundError", "ValueError: length mismatch"}

\* The positions of the per-split index that one filter alone keeps
TrOnly(obj) ==
    { k \in 1..Len(obj.all_df) : IsNone(obj.tr) \/ obj.all_df[k].tr \in Val(obj.tr) }
ViewOnly(obj) ==
    { k \in 1..Len(obj.all_df) :
        IsNone(obj.view_index) \/ InSeq(obj.all_df[k].view_index, Val(obj.view_index)) }
RatioOnly(obj) ==
    { k \in 1..Len(obj.all_df) : IsNone(obj.ratio) \/ obj.all_df[k].ratio \in Val(obj.ratio) }

KeptByAll(obj) == TrOnly(obj) \cap ViewOnly(obj) \cap RatioOnly(obj)

\* A sphere-mode sample whose gathered group holds nview images
SphereSample ==
    /\ pc = "ready"
    /\ self.mode = "sp"
    /\ self.nview \in 1..NumViews
    /\ ret.op = "__getitem__"
    /\ ret.status = "ok"
    /\ Len(ret.val.path) = self.nview

SeqRange(s) == { s[k] : k \in 1..Len(s) }

----------------------------------------------------------------------------
(* C1: for nview in 1..18, len(dataset) is the number of rows of the        *)
(* filtered index in modes sv and sp, and that number divided by nview,     *)
(* rounded down, in mode mv.  The number of filtered rows is counted here   *)
(* as the rows of the per-split index that pass every configured filter.    *)
C1_LenMatchesFilteredRows ==
    (pc = "ready" /\ ret.op = "__len__" /\ self.nview \in 1..NumViews
        /\ self.mode \in Modes)
    => /\ ret.status = "ok"
       /\ LET rows == Cardinality(KeptByAll(self))
          IN  /\ rows = Len(self.df)
              /\ ret.val = IF self.mode = "mv"
                           THEN CHOOSE q \in 0..rows :
                                  q * self.nview <= rows /\ rows < (q + 1) * self.nview
                           ELSE rows

\* C1 witness: an mv length that is rounded down
C1_Witness ==
    /\ pc = "ready" /\ ret.op = "__len__" /\ ret.status = "ok"
    /\ self.mode = "mv" /\ self.nview \in 2..NumViews
    /\ Len(self.df) % self.nview # 0
    /\ ret.val > 0

(* C2: nview = 0 means all 18 views: in each of the modes sv, mv, sp the    *)
(* dataset built with nview = 0 constructs whenever the one built with      *)
(* nview = 18 does, and its length and samples are those of nview = 18.     *)
C2_ZeroMeansAllViews ==
    (pc # "new" /\ self.nview = 0 /\ self.mode \in Modes)
    => LET o == __init__([ArgsOf(self) EXCEPT !.nview = NumViews], ReadCSV, cache)
       IN  o.err = "none"
           => /\ err = "none"
              /\ self.df = o.obj.df
              /\ ret.op = "__len__"
                 => LET n == __len__(o.obj.df, NumViews, self.mode)
                    IN  ret.status = n.status /\ ret.val = n.val
              /\ ret.op = "__getitem__"
                 => LET g == __getitem__(o.obj, ret.index)
                    IN  ret.status = g.status /\ ret.val = g.val

(* C3 as claimed: with a mode string outside sv, mv, sp the invalid-mode    *)
(* error is never raised by construction, whatever preload is, and is       *)
(* raised by the first sample access.                                       *)
C3_Original ==
    (pc # "new" /\ self.mode \notin Modes)
    => /\ err # "ValueError: invalid mode"
       /\ (pc = "ready" /\ ret.op = "__getitem__")
          => ret.status = "ValueError: invalid mode"

(* C3 amended: with a mode string outside sv, mv, sp and preload off,       *)
(* construction never raises the invalid-mode error and every sample access *)
(* at an index inside the filtered index raises it; with preload on, the    *)
(* error is raised by construction itself whenever the index was built and  *)
(* the filtered index is not empty, and construction completes only over an *)
(* empty filtered index.                                                    *)
C3_InvalidModeRaisedAtFirstAssembly ==
    (pc # "new" /\ self.mode \notin Modes)
    => /\ ~self.preload
          => /\ err # "ValueError: invalid mode"
             /\ (pc = "ready" /\ ret.op = "__getitem__" /\ ret.index < Len(self.df))
                => ret.status = "ValueError: invalid mode"
       /\ self.preload
          => /\ pc = "ready" => Len(self.df) = 0
             /\ (pc = "failed" /\ err \notin IndexErrors)
                => err = "ValueError: invalid mode"

\* C3 witness: preloading an invalid mode fails the construction
C3_Witness ==
    /\ pc = "failed" /\ self.mode \notin Modes /\ self.preload
    /\ err = "ValueError: invalid mode"
    /\ ret.op = "__init__"

(* C4: in sphere mode, when the gathered group holds nview images, the      *)
(* strips cropped from the images have widths that sum to the image side,   *)
(* every strip but the last being ceil(size / nview) wide.                  *)
C4_StripsSumToSide ==
    SphereSample
    => LET size == Side(ret.val.path[1][1])
           w == [k \in 1..Len(ret.val.img) |-> ret.val.img[k].w]
       IN  /\ SumSeq(w) = size
           /\ \A k \in 1..(Len(w) - 1) : w[k] = Ceil(size, self.nview)

(* C5 as claimed: for nview = N > 0 the view indices used by the filter are *)
(* the N points 17 * i / (N - 1), i in 0..N-1, each rounded to the nearest  *)
(* integer ({0} for N = 1).                                                 *)
C5_Original ==
    (pc = "ready" /\ self.nview > 0)
    => SeqRange(Val(self.view_index)) =
         IF self.nview = 1 THEN {0}
         ELSE { Round(LastView * i, self.nview - 1) : i \in 0..(self.nview - 1) }

(* C5 amended: for nview = N > 0 the view indices used by the filter are    *)
(* the N points 17 * i / (N - 1), i in 0..N-1, each rounded down: v is used *)
(* exactly when v <= 17 * i / (N - 1) < v + 1 for some i ({0} for N = 1);   *)
(* every row of the filtered index carries one of them.                     *)
C5_ViewIndicesRoundedDown ==
    (pc = "ready" /\ self.nview > 0)
    => LET N == self.nview
           used == SeqRange(Val(self.view_index))
       IN  /\ used =
                IF N = 1 THEN {0}
                ELSE { v \in 0..LastView :
                         \E i \in 0..(N - 1) :
                            /\ v * (N - 1) <= LastView * i
                            /\ LastView * i < (v + 1) * (N - 1) }
           /\ \A k \in 1..Len(self.df) : self.df[k].view_index \in used

\* C5 witness: four views, where rounding down and rounding differ
C5_Witness ==
    /\ pc = "ready" /\ self.nview = 4
    /\ Val(self.view_index) = <<0, 5, 11, 17>>
    /\ Len(self.df) > 0

\* The step that constructs the dataset
Constructed == pc = "new" /\ pc' # "new"

(* C6 as claimed: the presence of the cache file decides.  If it exists it  *)
(* is loaded and filtered to the split, no path is parsed and the file is   *)
(* left unchanged; if it is absent the index is derived from the scan, the  *)
(* index build succeeds and the file then holds the derived index.          *)
C6_Original ==
    [][ Constructed
        => IF ~IsNone(cache)
           THEN /\ cache' = cache
                /\ ret'.val = 0
                /\ err' \notin IndexErrors
                /\ pc' = "ready" => self'.all_df = SplitRows(Val(cache), self'.dataset)
           ELSE /\ err' \notin IndexErrors
                /\ cache' = Some(ScanTable(glob(self'.root))) ]_vars

(* C6 amended: the flag ReadCSV decides, not the presence of the file.      *)
(* With the flag set no path is parsed and the file is left as it is: an    *)
(* existing file is loaded and filtered to the split, an absent one fails   *)
(* the construction (file not found).  With the flag clear every discovered *)
(* path is parsed whether or not the file exists; when the number of files  *)
(* is a multiple of 72 the index is built, filtered to the split, and the   *)
(* file afterwards holds the derived index, otherwise the build fails and   *)
(* the file is left as it was.                                              *)
C6_FlagDecidesLoadOrDerive ==
    [][ Constructed
        => IF ReadCSV
           THEN /\ cache' = cache
                /\ ret'.val = 0
                /\ IF IsNone(cache)
                   THEN err' = "FileNotFoundError"
                   ELSE /\ err' \notin IndexErrors
                        /\ pc' = "ready"
                           => self'.all_df = SplitRows(Val(cache), self'.dataset)
           ELSE LET files == glob(self'.root)
                IN  /\ ret'.val = Len(files)
                    /\ IF Len(files) % (NumViews * RowsPerView) = 0
                       THEN /\ err' \notin IndexErrors
                            /\ cache' = Some(ScanTable(files))
                            /\ pc' = "ready"
                               => self'.all_df = SplitRows(ScanTable(files), self'.dataset)
                       ELSE /\ err' = "ValueError: length mismatch"
                            /\ cache' = cache ]_vars

\* C6 witness: an index derived from the scan, the cache file holding it
C6_Witness ==
    /\ pc = "ready" /\ ~ReadCSV /\ ret.op = "__init__"
    /\ ret.val = Len(glob(self.root))
    /\ cache = Some(ScanTable(glob(self.root)))
    /\ Len(self.all_df) > 0

(* C7: filtering is conjunctive.  The rows of the filtered index are the    *)
(* rows of the per-split index kept by the rotation-axis filter alone, by   *)
(* the view-index filter alone and by the ratio filter alone (an unset      *)
(* filter keeps every row), in their original relative order, renumbered    *)
(* 0, 1, 2, ...                                                             *)
C7_FilterIsIntersection ==
    (pc = "ready" /\ ret.op = "__init__")
    => LET keep == KeptByAll(self)
           order == SelectSeq([k \in 1..Len(self.all_df) |-> k], LAMBDA k : k \in keep)
       IN  /\ Len(self.df) = Len(order)
           /\ \A j \in 1..Len(order) :
                self.df[j] = [self.all_df[order[j]] EXCEPT !.index = j - 1]

\* C7 witness: all three filters set, each alone keeping more than all three
C7_Witness ==
    /\ pc = "ready" /\ ret.op = "__init__"
    /\ ~IsNone(self.tr) /\ ~IsNone(self.view_index) /\ ~IsNone(self.ratio)
    /\ Len(self.df) > 0
    /\ Cardinality(TrOnly(self)) < Len(self.all_df)
    /\ Cardinality(ViewOnly(self)) < Len(self.all_df)
    /\ Cardinality(RatioOnly(self)) < Len(self.all_df)
    /\ Len(self.df) < Cardinality(TrOnly(self) \cap ViewOnly(self))
    /\ Len(self.df) < Cardinality(TrOnly(self) \cap RatioOnly(self))
    /\ Len(self.df) < Cardinality(ViewOnly(self) \cap RatioOnly(self))

(* C8: in sphere mode, when the gathered group holds nview images, every    *)
(* one of them contributes exactly one strip: the composite is made of      *)
(* nview strips, the k-th cut from the k-th image.                          *)
C8_EveryImageContributesAStrip ==
    SphereSample
    => /\ Len(ret.val.img) = self.nview
       /\ \A k \in 1..Len(ret.val.img) : ret.val.img[k].src = ret.val.path[k]

(* C9: an index built from a directory scan is built whatever the number of *)
(* discovered files, the k-th file in discovery order (k from 0) getting    *)
(* the view_index (k div 4) mod 18; a root of 18 files (1 category, 1       *)
(* instance, 1 rotation axis, 18 frames, 1 ratio) read in mode sv with      *)
(* nview = 18 has length 18.                                                *)
C9_ScanBuildsAnyFileCount ==
    (pc # "new" /\ ~ReadCSV)
    => /\ err \notin IndexErrors
       /\ ~IsNone(cache)
       /\ \A k \in 1..Len(Val(cache)) :
            Val(cache)[k].view_index = ((k - 1) \div RowsPerView) % NumViews
       /\ (self.root = "r18" /\ self.mode = "sv" /\ self.nview = NumViews
             /\ IsNone(self.tr) /\ IsNone(self.ratio) /\ self.dataset = "train")
          => pc = "ready" /\ Len(self.df) = NumViews

\* Every (category, instance, rotation axis) of the table has the 18 frames,
\* each at every ratio present in the table.
LayoutInvariant(table) ==
    LET ratios == { table[j].ratio : j \in 1..Len(table) }
    IN  \A k \in 1..Len(table) : \A fr \in Frames : \A ra \in ratios :
            \E m \in 1..Len(table) :
                /\ table[m].ca = table[k].ca /\ table[m].no = table[k].no
                /\ table[m].tr = table[k].tr /\ table[m].fr = fr
                /\ table[m].ratio = ra

LayoutOK72 == LayoutInvariant(Table72)
LayoutOKMix == LayoutInvariant(TableMix)

GroupKey(row) == <<row.ca, row.no, row.tr, row.ratio>>

(* C10: in multi-view mode over a directory satisfying the layout           *)
(* invariant, whatever the ratio configuration, the samples of the logical  *)
(* indices 0 .. len - 1 are pairwise distinct (category, instance, rotation *)
(* axis, ratio) groups, every group of the filtered index is the sample of  *)
(* exactly one logical index, and every sample holds exactly nview rows.    *)
C10_MvReturnsEachGroupOnce ==
    (/\ pc = "ready" /\ self.mode = "mv" /\ self.preload
     /\ self.nview \in 1..NumViews
     /\ \/ cache = Some(Table72) /\ LayoutOK72
        \/ cache = Some(TableMix) /\ LayoutOKMix)
    => LET L == Val(self.loaded_data)
           key(k) == GroupKey(_get_img_info(L[k].path[1]))
       IN  /\ \A i, j \in 1..Len(L) : i # j => key(i) # key(j)
           /\ \A r \in 1..Len(self.df) :
                Cardinality({ k \in 1..Len(L) : key(k) = GroupKey(self.df[r]) }) = 1
           /\ \A k \in 1..Len(L) : Len(L[k].path) = self.nview

====
